---- MODULE Spec2Model ----
(***************************************************************************)
(* Model of VisualizeLog.py (generate_report): discovery of *_log.csv      *)
(* files, per-file load/validate, concat and sort by Timestamp, reshape of *)
(* the TopMem/TopHandle slot columns into long tables, top-K selection by  *)
(* peak value, chart assembly and the write of MemoryForensicsReport.html. *)
(*                                                                         *)
(* Representation.                                                         *)
(*   cell        <<>> is NaN / missing, <<x>> is the present value x (a    *)
(*               number, a name, or the instant a date text denotes),      *)
(*               <<"text", s>> is the text s where a number or a date is   *)
(*               expected and s is neither                                 *)
(*   column key  <<prefix, i, suffix>>, e.g. <<"TopMem", 1, "Name">> for   *)
(*               the pandas column TopMem1_Name and <<"Timestamp", 0, "">> *)
(*               for the column Timestamp                                  *)
(*   row         function from the frame's column keys to cells            *)
(*   DataFrame   [columns |-> set of column keys, rows |-> Seq(row)]       *)
(*   long table  (after groupby) a set of records                          *)
(*               [Timestamp, ProcessName, Value] with unique               *)
(*               (Timestamp, ProcessName)                                  *)
(*   file name   [stem, suffix]; its characters are the character codes of *)
(*               the stem followed by those of the suffix                  *)
(***************************************************************************)
EXTENDS Integers, Sequences, FiniteSets

VARIABLES dir, report, pc, log_files, idx, all_dfs, console, err,
          df_main, df_mem_raw, df_mem, df_handle_raw, df_handle,
          df_mem_filtered, mem_consumers, df_handle_filtered, handle_consumers,
          fig, writes,
          sel_pc, sel_df, sel_n, sel_ret, sel_again

selvars == <<sel_pc, sel_df, sel_n, sel_ret, sel_again>>

runvars == <<dir, report, pc, log_files, idx, all_dfs, console, err,
             df_main, df_mem_raw, df_mem, df_handle_raw, df_handle,
             df_mem_filtered, mem_consumers, df_handle_filtered, handle_consumers,
             fig, writes>>

vars == <<dir, report, pc, log_files, idx, all_dfs, console, err,
          df_main, df_mem_raw, df_mem, df_handle_raw, df_handle,
          df_mem_filtered, mem_consumers, df_handle_filtered, handle_consumers,
          fig, writes, sel_pc, sel_df, sel_n, sel_ret, sel_again>>

(***************************************************************************)
(* Bounds of the explored input space.                                     *)
(***************************************************************************)
MaxFiles == 3
MaxRows == 2
MaxK == 2
MaxVal == 2

(***************************************************************************)
(* Program constants.                                                      *)
(***************************************************************************)
MemSlotCount == 10
HandleSlotCount == 5
MemTopN == 5
HandleTopN == 3
DefaultTopN == 10

(***************************************************************************)
(* Generic helpers.                                                        *)
(***************************************************************************)
NaN == <<>>

notna(c) == c # NaN

\* A cell read from the CSV that is text where a number or a date is expected.
TextCell(s) == <<"text", s>>

is_text(c) == Len(c) = 2

Min2(a, b) == IF a <= b THEN a ELSE b

RECURSIVE Perms(_)
Perms(S) ==
    IF S = {} THEN {<<>>}
    ELSE UNION {{<<x>> \o p : p \in Perms(S \ {x})} : x \in S}

Range(s) == {s[i] : i \in 1..Len(s)}

RECURSIVE SeqsUpTo(_, _)
SeqsUpTo(S, n) ==
    IF n = 0 THEN {<<>>}
    ELSE LET shorter == SeqsUpTo(S, n - 1)
         IN  shorter \cup {Append(s, x) : s \in {t \in shorter : Len(t) = n - 1}, x \in S}

RECURSIVE Ascending(_)
Ascending(S) ==
    IF S = {} THEN <<>>
    ELSE LET m == CHOOSE x \in S : \A y \in S : x <= y
         IN  <<m>> \o Ascending(S \ {m})

RECURSIVE FlattenSeq(_)
FlattenSeq(ss) ==
    IF ss = <<>> THEN <<>> ELSE Head(ss) \o FlattenSeq(Tail(ss))

(***************************************************************************)
(* Column keys (the pandas column labels the code reads).                  *)
(***************************************************************************)
TimestampCol == <<"Timestamp", 0, "">>
TotalMBCol == <<"TotalMB", 0, "">>
UsedMBCol == <<"UsedMB", 0, "">>
NonPagedPoolMBCol == <<"NonPagedPoolMB", 0, "">>
PagedPoolMBCol == <<"PagedPoolMB", 0, "">>

\* f'{prefix_name}{i}_Name'
NameCol(prefix_name, i) == <<prefix_name, i, "Name">>

\* f'{prefix_val}{i}_{val_col_name}'
ValCol(prefix_val, i, val_col_name) == <<prefix_val, i, val_col_name>>

EmptyFrame == [columns |-> {}, rows |-> <<>>]

(***************************************************************************)
(* Input space: file names, file contents, directories.                    *)
(***************************************************************************)
RECURSIVE DigitChars(_)
DigitChars(n) ==
    IF n < 10 THEN <<48 + n>> ELSE Append(DigitChars(n \div 10), 48 + (n % 10))

Ids == {5 * i : i \in 1..MaxFiles}

FileName(i, matching) ==
    [stem |-> DigitChars(i), suffix |-> IF matching THEN "_log.csv" ELSE ".txt"]

Slot(n, v) == [name |-> n, val |-> v]

MemVecs ==
    { << Slot(<<"a">>, <<1>>), Slot(<<"a">>, <<2>>), Slot(<<"b">>, NaN) >>,
      << Slot(<<"a">>, <<2>>), Slot(<<"b">>, <<1>>), Slot(<<"c">>, <<7>>) >>,
      << Slot(<<"d">>, <<4>>), Slot(<<"e">>, <<5>>), Slot(<<"f">>, <<6>>) >> }

HandleVecs ==
    { << Slot(<<"a">>, <<1>>), Slot(<<"b">>, <<2>>) >>,
      << Slot(<<"c">>, <<3>>), Slot(<<"d">>, <<1>>) >> }

Timestamps == {1, 2}

ScalarCols == {TimestampCol, TotalMBCol, UsedMBCol, NonPagedPoolMBCol, PagedPoolMBCol}

SlotCols(prefix, unit, n) ==
    {NameCol(prefix, i) : i \in 1..n} \cup {ValCol(prefix, i, unit) : i \in 1..n}

FullCols == ScalarCols \cup SlotCols("TopMem", "MB", 3) \cup SlotCols("TopHandle", "Count", 2)
NarrowCols == ScalarCols \cup SlotCols("TopMem", "MB", 1)
OldCols == (ScalarCols \ {NonPagedPoolMBCol, PagedPoolMBCol}) \cup SlotCols("TopMem", "MB", 1)

\* One CSV row over the columns cols: timestamp ts, mem slots mv, handle slots hv.
MkRow(cols, ts, mv, hv) ==
    [c \in cols |->
        IF c = TimestampCol THEN <<ts>>
        ELSE IF c = TotalMBCol THEN <<8>>
        ELSE IF c = UsedMBCol THEN <<ts + 2>>
        ELSE IF c = NonPagedPoolMBCol THEN <<ts>>
        ELSE IF c = PagedPoolMBCol THEN <<3 - ts>>
        ELSE LET v == IF c[1] = "TopMem" THEN mv ELSE hv
             IN  IF c[2] > Len(v) THEN NaN
                 ELSE IF c[3] = "Name" THEN v[c[2]].name ELSE v[c[2]].val]

RowSet == {MkRow(FullCols, t, mv, hv) : t \in Timestamps, mv \in MemVecs, hv \in HandleVecs}

NarrowRow == MkRow(NarrowCols, 2, << Slot(<<"a">>, <<1>>) >>, <<>>)
FullRow == MkRow(FullCols, 1,
                 << Slot(<<"a">>, <<2>>), Slot(<<"b">>, <<1>>), Slot(<<"c">>, <<1>>) >>,
                 << Slot(NaN, <<1>>), Slot(<<"b">>, <<2>>) >>)
OldRow == MkRow(OldCols, 1, << Slot(<<"z">>, <<9>>) >>, <<>>)

BadDateRow == [FullRow EXCEPT ![TimestampCol] = TextCell("not a date")]
BadMemRow == [FullRow EXCEPT ![ValCol("TopMem", 1, "MB")] = TextCell("12MB")]
BadHandleRow == [FullRow EXCEPT ![ValCol("TopHandle", 2, "Count")] = TextCell("1,024")]

FaultKinds == {"baddate", "badmem", "badhandle"}

FileKinds == {"absent", "other", "bad", "old", "header", "narrow", "full"}

FileOfKind(k) ==
    [parses |-> k # "bad",
     table  |-> IF k = "old" THEN [columns |-> OldCols, rows |-> <<OldRow>>]
                ELSE IF k = "header" THEN [columns |-> FullCols, rows |-> <<>>]
                ELSE IF k = "narrow" THEN [columns |-> NarrowCols, rows |-> <<NarrowRow>>]
                ELSE IF k = "full" THEN [columns |-> FullCols, rows |-> <<FullRow>>]
                ELSE IF k = "baddate" THEN [columns |-> FullCols, rows |-> <<BadDateRow>>]
                ELSE IF k = "badmem" THEN [columns |-> FullCols, rows |-> <<BadMemRow>>]
                ELSE IF k = "badhandle" THEN [columns |-> FullCols, rows |-> <<BadHandleRow>>]
                ELSE EmptyFrame]

\* The directory in which file id i is of kind ch[i].
DirOfKinds(ch) ==
    LET present == {i \in DOMAIN ch : ch[i] # "absent"}
        names   == {FileName(i, ch[i] # "other") : i \in present}
    IN  [n \in names |-> FileOfKind(ch[CHOOSE i \in present : DigitChars(i) = n.stem])]

\* Directories that vary the files' kinds (contents fixed per kind).
LoadDirs == {DirOfKinds(ch) : ch \in [Ids -> FileKinds]}

\* Directories in which "5_log.csv" holds a cell that is not a date or not a
\* number, alone or beside a well-formed "10_log.csv".
FaultDirs ==
    {DirOfKinds([i \in {5, 10} |-> IF i = 5 THEN k ELSE o]) :
        k \in FaultKinds, o \in {"absent", "full"}}

\* The name "." + i + "_log.csv".
HiddenName(i) == [stem |-> <<46>> \o DigitChars(i), suffix |-> "_log.csv"]

\* Directories in which a well-formed ".5_log.csv" stands alone or beside a
\* file with id 10.
HiddenDirs ==
    {[n \in DOMAIN d \cup {HiddenName(5)} |->
         IF n = HiddenName(5) THEN FileOfKind("full") ELSE d[n]] :
        d \in {DirOfKinds([i \in {10} |-> o]) : o \in {"absent", "full", "old", "other"}}}

\* The directory holding rows s split at k over two new-format files,
\* "10_log.csv" (the first k rows) and "5_log.csv" (the rest).
DirOfRows(s, k) ==
    [n \in {FileName(10, TRUE), FileName(5, TRUE)} |->
        [parses |-> TRUE,
         table  |-> [columns |-> FullCols,
                     rows    |-> IF n = FileName(10, TRUE) THEN SubSeq(s, 1, k)
                                 ELSE SubSeq(s, k + 1, Len(s))]]]

\* Directories that vary the rows of new-format files.
TableDirs == UNION {{DirOfRows(s, k) : k \in 0..Len(s)} : s \in SeqsUpTo(RowSet, MaxRows)}

(***************************************************************************)
(* 1. Discovery (lines 10-18).                                             *)
(***************************************************************************)
\* A name that begins with "." (code 46); a pattern that begins with "*"
\* never matches it.
is_hidden(n) == n.stem # <<>> /\ n.stem[1] = 46

\* glob.glob('*_log.csv'): the names that end in "_log.csv" and are not
\* hidden, in an order the OS chooses.
glob(d) == Perms({n \in DOMAIN d : n.suffix = "_log.csv" /\ ~is_hidden(n)})

\* The character codes of "_log.csv" and ".txt".
SuffixChars(suffix) ==
    IF suffix = "_log.csv" THEN <<95, 108, 111, 103, 46, 99, 115, 118>>
    ELSE <<46, 116, 120, 116>>

\* The characters of a file name, which log_files.sort() compares.
NameChars(n) == n.stem \o SuffixChars(n.suffix)

\* Python's str comparison: lexicographic by character code.
RECURSIVE StrLess(_, _)
StrLess(a, b) ==
    IF b = <<>> THEN FALSE
    ELSE IF a = <<>> THEN TRUE
    ELSE IF Head(a) # Head(b) THEN Head(a) < Head(b)
    ELSE StrLess(Tail(a), Tail(b))

\* log_files.sort()
list_sort(files) ==
    CHOOSE p \in Perms(Range(files)) :
        \A i \in 1..(Len(p) - 1) : StrLess(NameChars(p[i]), NameChars(p[i + 1]))

(***************************************************************************)
(* 2. Load and combine (lines 21-42).                                      *)
(***************************************************************************)
\* pd.read_csv(f): the parsed frame, or an exception.
read_csv(d, f) == [raised |-> ~d[f].parses, df |-> d[f].table]

\* pd.concat followed by drop_duplicates(): a row equal to an earlier one is
\* dropped.
pd_concat_dedup(dfs) ==
    LET cols == UNION {dfs[i].columns : i \in 1..Len(dfs)}
        widen(df) == [j \in 1..Len(df.rows) |->
                        [c \in cols |-> IF c \in df.columns THEN df.rows[j][c] ELSE NaN]]
        all == FlattenSeq([i \in 1..Len(dfs) |-> widen(dfs[i])])
        first == {i \in 1..Len(all) : \A j \in 1..(i - 1) : all[j] # all[i]}
        keep == Ascending(first)
    IN  [columns |-> cols, rows |-> [i \in 1..Len(keep) |-> all[keep[i]]]]

\* pd.concat(all_dfs, ignore_index=True): union of the columns, rows in list
\* order, NaN where a frame lacks a column.
pd_concat(dfs) ==
    LET cols == UNION {dfs[i].columns : i \in 1..Len(dfs)}
        widen(df) == [j \in 1..Len(df.rows) |->
                        [c \in cols |-> IF c \in df.columns THEN df.rows[j][c] ELSE NaN]]
    IN  [columns |-> cols,
         rows    |-> FlattenSeq([i \in 1..Len(dfs) |-> widen(dfs[i])])]

\* pd.to_datetime(df['Timestamp']) raises (errors='raise') when a cell is text
\* that is not a date.
to_datetime_raises(df) ==
    \E i \in 1..Len(df.rows) : is_text(df.rows[i][TimestampCol])

\* pd.to_datetime on one cell that parses: a date text is held as the instant
\* it denotes, NaN becomes NaT (also <<>>).
to_datetime(c) == c

\* Order of sort_values' keys, NaT last.
KeyLeq(a, b) == b = NaN \/ (a # NaN /\ a[1] <= b[1])

\* sort_values left out: the frame as concatenated.
sort_values_unsorted(df, col) == {df}

\* The arrangements of the row positions in S that are ascending in col.
RECURSIVE AscOrders(_, _, _)
AscOrders(rows, col, S) ==
    IF S = {} THEN {<<>>}
    ELSE UNION {{<<i>> \o p : p \in AscOrders(rows, col, S \ {i})} :
                  i \in {j \in S : \A k \in S : KeyLeq(rows[j][col], rows[k][col])}}

\* df.sort_values(col): kind='quicksort' is not stable, so every arrangement
\* of the rows that is ascending in col is a possible result.
sort_values(df, col) ==
    {[columns |-> df.columns, rows |-> [i \in 1..Len(p) |-> df.rows[p[i]]]] :
        p \in AscOrders(df.rows, col, 1..Len(df.rows))}

\* Lines 38-42: the possible values of df_main.
merge_frames(dfs) ==
    LET cat == pd_concat(dfs)
        conv == [columns |-> cat.columns,
                 rows |-> [i \in 1..Len(cat.rows) |->
                             [c \in cat.columns |->
                                IF c = TimestampCol THEN to_datetime(cat.rows[i][c])
                                ELSE cat.rows[i][c]]]]
    IN  sort_values(conv, TimestampCol)

(***************************************************************************)
(* 3. Reshape (lines 47-74).                                               *)
(***************************************************************************)
\* str(p_name) of a name read from the CSV
py_str(c) == c[1]

\* float(p_val) raises ValueError on text that is not a number
float_raises(c) == is_text(c)

\* float(p_val) of a numeric cell
py_float(c) == c[1]

\* Lines 52-64: the entries slot i of one row appends to data.
slot_entries(row, prefix_name, prefix_val, i, val_col_name) ==
    LET name_col == NameCol(prefix_name, i)
        val_col  == ValCol(prefix_val, i, val_col_name)
    IN  IF name_col \in DOMAIN row /\ val_col \in DOMAIN row
        THEN LET p_name == row[name_col]
                 p_val  == row[val_col]
             IN  IF notna(p_name) /\ notna(p_val)
                 THEN << [Timestamp |-> row[TimestampCol],
                          ProcessName |-> py_str(p_name),
                          Value |-> py_float(p_val)] >>
                 ELSE <<>>
        ELSE <<>>

\* extract_top_data raises at line 63 when a slot with name and value present
\* holds a value that float() rejects.
extract_raises(df, prefix_name, prefix_val, count, val_col_name) ==
    \E r \in 1..Len(df.rows) : \E i \in 1..count :
        LET row == df.rows[r]
            name_col == NameCol(prefix_name, i)
            val_col  == ValCol(prefix_val, i, val_col_name)
        IN  /\ name_col \in DOMAIN row /\ val_col \in DOMAIN row
            /\ notna(row[name_col]) /\ notna(row[val_col])
            /\ float_raises(row[val_col])

\* extract_top_data: the list data, in append order (a frame without columns
\* when the list is empty).
extract_top_data(df, prefix_name, prefix_val, count, val_col_name) ==
    FlattenSeq([r \in 1..Len(df.rows) |->
        FlattenSeq([i \in 1..count |->
            slot_entries(df.rows[r], prefix_name, prefix_val, i, val_col_name)])])

RECURSIVE SumValues(_, _, _)
SumValues(raw, ts, name) ==
    IF raw = <<>> THEN 0
    ELSE (IF Head(raw).Timestamp = ts /\ Head(raw).ProcessName = name
          THEN Head(raw).Value ELSE 0) + SumValues(Tail(raw), ts, name)

\* groupby(...)['Value'].max() in place of .sum()
groupby_max(raw) ==
    LET keyed == {i \in 1..Len(raw) : notna(raw[i].Timestamp)}
        keys  == {<<raw[i].Timestamp, raw[i].ProcessName>> : i \in keyed}
        vals(k) == {raw[i].Value : i \in {j \in keyed : <<raw[j].Timestamp, raw[j].ProcessName>> = k}}
    IN  {[Timestamp |-> k[1][1], ProcessName |-> k[2],
          Value |-> CHOOSE m \in vals(k) : \A v \in vals(k) : v <= m] : k \in keys}

\* groupby(['Timestamp', 'ProcessName']) on a frame without columns raises
\* KeyError: 'Timestamp'.
groupby_raises(raw) == raw = <<>>

\* raw.groupby(['Timestamp','ProcessName'], as_index=False)['Value'].sum():
\* one row per key, NaT keys dropped.
groupby_sum(raw) ==
    LET keyed == {i \in 1..Len(raw) : notna(raw[i].Timestamp)}
        keys  == {<<raw[i].Timestamp, raw[i].ProcessName>> : i \in keyed}
    IN  {[Timestamp |-> k[1][1], ProcessName |-> k[2],
          Value |-> SumValues(raw, k[1], k[2])] : k \in keys}

(***************************************************************************)
(* Top-K selection (lines 77-82).                                          *)
(***************************************************************************)
ProcessNames(df) == {r.ProcessName : r \in df}

RECURSIVE SumOfValues(_)
SumOfValues(rs) ==
    IF rs = {} THEN 0
    ELSE LET r == CHOOSE x \in rs : TRUE
         IN  r.Value + SumOfValues(rs \ {r})

\* df.groupby('ProcessName')[value_col].sum() in place of .max()
max_usage_sum(df) ==
    [name \in ProcessNames(df) |-> SumOfValues({q \in df : q.ProcessName = name})]

\* df.groupby('ProcessName')[value_col].max()
max_usage(df) ==
    [name \in ProcessNames(df) |->
        LET vs == {r.Value : r \in {q \in df : q.ProcessName = name}}
        IN  CHOOSE m \in vs : \A v \in vs : v <= m]

\* The arrangements of the names in S that are descending in mx.
RECURSIVE DescOrders(_, _)
DescOrders(mx, S) ==
    IF S = {} THEN {<<>>}
    ELSE UNION {{<<x>> \o p : p \in DescOrders(mx, S \ {x})} :
                  x \in {y \in S : \A z \in S : mx[z] <= mx[y]}}

\* .sort_values(ascending=False): every descending arrangement (ties in an
\* unspecified order).
sorted_desc(mx) == DescOrders(mx, DOMAIN mx)

\* a slice that starts one too far: o[1:top_n]
head_skipfirst(o, top_n) == SubSeq(o, 2, Min2(top_n, Len(o)))

\* .head(top_n), top_n >= 0
head(o, top_n) == SubSeq(o, 1, Min2(top_n, Len(o)))

\* The possible return values: the bare frame when df is empty (line 78),
\* else the pair (filtered frame, top_consumers).
filter_top_consumers(df, top_n) ==
    IF df = {} THEN {[pair |-> FALSE, df |-> df, names |-> <<>>]}
    ELSE {[pair  |-> TRUE,
           df    |-> {r \in df : r.ProcessName \in Range(head(o, top_n))},
           names |-> head(o, top_n)] : o \in sorted_desc(max_usage(df))}

\* "a, b = ret" raises ValueError unless ret is a pair: a long frame iterates
\* over its three column labels.
unpack_raises(ret) == ~ret.pair

(***************************************************************************)
(* 4. Chart assembly (lines 91-127).                                       *)
(***************************************************************************)
\* df[col] as a list of cells
column(df, col) == [i \in 1..Len(df.rows) |-> df.rows[i][col]]

\* the selection by name left out: proc_df is the whole filtered frame
proc_rows_all(df, proc_name) ==
    LET ts == Ascending({r.Timestamp : r \in df})
    IN  [i \in 1..Len(ts) |-> CHOOSE r \in df : r.Timestamp = ts[i]]

\* df[df['ProcessName'] == proc_name], in the frame's (Timestamp) order
proc_rows(df, proc_name) ==
    LET mine == {r \in df : r.ProcessName = proc_name}
        ts   == Ascending({r.Timestamp : r \in mine})
    IN  [i \in 1..Len(ts) |-> CHOOSE r \in mine : r.Timestamp = ts[i]]

Trace(row, label, proc, x, y) == [row |-> row, label |-> label, proc |-> proc, x |-> x, y |-> y]

\* go.Scatter(x=df_main['Timestamp'], y=df_main[col], ...) added to a row
scalar_trace(df, row, label, col) ==
    Trace(row, label, "", column(df, TimestampCol), column(df, col))

\* Lines 112-118 and 121-127: one trace per name of consumers, in list order.
proc_traces(df_filtered, consumers, row, label) ==
    IF df_filtered = {} THEN <<>>
    ELSE [k \in 1..Len(consumers) |->
            LET proc_df == proc_rows(df_filtered, consumers[k])
            IN  Trace(row, label, consumers[k],
                      [i \in 1..Len(proc_df) |-> proc_df[i].Timestamp],
                      [i \in 1..Len(proc_df) |-> proc_df[i].Value])]

\* df_main[col] raises KeyError when the merged frame lacks the column.
plot_raises(df) ==
    ~({TimestampCol, TotalMBCol, UsedMBCol, NonPagedPoolMBCol, PagedPoolMBCol} \subseteq df.columns)

\* The traces of the figure, in add_trace order.
build_traces(df, mem_f, mem_c, handle_f, handle_c) ==
    << scalar_trace(df, 1, "Total MB", TotalMBCol),
       scalar_trace(df, 1, "Used MB", UsedMBCol),
       scalar_trace(df, 2, "Non-Paged Pool", NonPagedPoolMBCol),
       scalar_trace(df, 2, "Paged Pool", PagedPoolMBCol) >>
    \o proc_traces(mem_f, mem_c, 3, "Mem")
    \o proc_traces(handle_f, handle_c, 4, "Handles")

(***************************************************************************)
(* State machine of generate_report.                                       *)
(***************************************************************************)
NoFile == [stem |-> <<>>, suffix |-> ""]

Msg(m, f) == [msg |-> m, file |-> f]

NoReport == [state |-> "absent", fig |-> <<>>]
PreviousReport == [state |-> "previous", fig |-> <<>>]

InitRun ==
    /\ pc = "start"
    /\ log_files = <<>>
    /\ idx = 1
    /\ all_dfs = <<>>
    /\ console = <<>>
    /\ err = "none"
    /\ df_main = EmptyFrame
    /\ df_mem_raw = <<>>
    /\ df_mem = {}
    /\ df_handle_raw = <<>>
    /\ df_handle = {}
    /\ df_mem_filtered = {}
    /\ mem_consumers = <<>>
    /\ df_handle_filtered = {}
    /\ handle_consumers = <<>>
    /\ fig = <<>>
    /\ writes = 0

NoReturn == [pair |-> FALSE, df |-> {}, names |-> <<>>]

InitSel ==
    /\ sel_pc = "idle"
    /\ sel_df = {}
    /\ sel_n = DefaultTopN
    /\ sel_ret = NoReturn
    /\ sel_again = NoReturn

Init ==
    /\ InitSel
    /\ \/ dir \in LoadDirs /\ report \in {NoReport, PreviousReport}
       \/ dir \in TableDirs \cup FaultDirs \cup HiddenDirs /\ report = NoReport
    /\ InitRun

\* Line 10
Glob ==
    /\ pc = "start"
    /\ \E found \in glob(dir) : log_files' = found
    /\ pc' = "globbed"
    /\ UNCHANGED selvars
    /\ UNCHANGED <<dir, report, idx, all_dfs, console, err, df_main, df_mem_raw, df_mem,
                   df_handle_raw, df_handle, df_mem_filtered, mem_consumers,
                   df_handle_filtered, handle_consumers, fig, writes>>

\* Lines 11-13
NoLogFiles ==
    /\ pc = "globbed"
    /\ log_files = <<>>
    /\ console' = Append(console, Msg("No log files (*_log.csv) found", NoFile))
    /\ pc' = "returned"
    /\ UNCHANGED selvars
    /\ UNCHANGED <<dir, report, log_files, idx, all_dfs, err, df_main, df_mem_raw, df_mem,
                   df_handle_raw, df_handle, df_mem_filtered, mem_consumers,
                   df_handle_filtered, handle_consumers, fig, writes>>

\* Lines 16-21
SortFiles ==
    /\ pc = "globbed"
    /\ log_files # <<>>
    /\ log_files' = list_sort(log_files)
    /\ console' = Append(console, Msg("Found log files", NoFile))
    /\ all_dfs' = <<>>
    /\ idx' = 1
    /\ pc' = "load"
    /\ UNCHANGED selvars
    /\ UNCHANGED <<dir, report, err, df_main, df_mem_raw, df_mem,
                   df_handle_raw, df_handle, df_mem_filtered, mem_consumers,
                   df_handle_filtered, handle_consumers, fig, writes>>

\* LoadFile with the try around the loop instead of inside it: the first
\* file that fails to parse ends the loop.
LoadFile_abort ==
    /\ pc = "load"
    /\ idx <= Len(log_files)
    /\ LET f == log_files[idx]
           r == read_csv(dir, f)
       IN  IF r.raised
           THEN /\ console' = Append(console, Msg("Error reading", f))
                /\ all_dfs' = all_dfs
                /\ idx' = Len(log_files) + 1
           ELSE IF NonPagedPoolMBCol \in r.df.columns
           THEN /\ all_dfs' = Append(all_dfs, r.df)
                /\ console' = console
                /\ idx' = idx + 1
           ELSE /\ console' = Append(console, Msg("Skipping: Old format", f))
                /\ all_dfs' = all_dfs
                /\ idx' = idx + 1
    /\ UNCHANGED selvars
    /\ UNCHANGED <<dir, report, pc, log_files, err, df_main, df_mem_raw, df_mem,
                   df_handle_raw, df_handle, df_mem_filtered, mem_consumers,
                   df_handle_filtered, handle_consumers, fig, writes>>

\* Lines 22-32: one iteration of the loop
LoadFile ==
    /\ pc = "load"
    /\ idx <= Len(log_files)
    /\ LET f == log_files[idx]
           r == read_csv(dir, f)
       IN  IF r.raised
           THEN /\ console' = Append(console, Msg("Error reading", f))
                /\ all_dfs' = all_dfs
           ELSE IF NonPagedPoolMBCol \in r.df.columns
           THEN /\ all_dfs' = Append(all_dfs, r.df)
                /\ console' = console
           ELSE /\ console' = Append(console, Msg("Skipping: Old format", f))
                /\ all_dfs' = all_dfs
    /\ idx' = idx + 1
    /\ UNCHANGED selvars
    /\ UNCHANGED <<dir, report, pc, log_files, err, df_main, df_mem_raw, df_mem,
                   df_handle_raw, df_handle, df_mem_filtered, mem_consumers,
                   df_handle_filtered, handle_consumers, fig, writes>>

\* NoValidData without its return: the diagnostic is printed and the run goes
\* on to line 38 with an empty list.
NoValidData_noreturn ==
    /\ pc = "load"
    /\ idx > Len(log_files)
    /\ all_dfs = <<>>
    /\ console' = Append(console, Msg("Could not read any valid data (New Format).", NoFile))
    /\ df_main' = pd_concat(all_dfs)
    /\ pc' = "merged"
    /\ UNCHANGED selvars
    /\ UNCHANGED <<dir, report, log_files, idx, all_dfs, err, df_mem_raw, df_mem,
                   df_handle_raw, df_handle, df_mem_filtered, mem_consumers,
                   df_handle_filtered, handle_consumers, fig, writes>>

\* Lines 34-36
NoValidData ==
    /\ pc = "load"
    /\ idx > Len(log_files)
    /\ all_dfs = <<>>
    /\ console' = Append(console, Msg("Could not read any valid data (New Format).", NoFile))
    /\ pc' = "returned"
    /\ UNCHANGED selvars
    /\ UNCHANGED <<dir, report, log_files, idx, all_dfs, err, df_main, df_mem_raw, df_mem,
                   df_handle_raw, df_handle, df_mem_filtered, mem_consumers,
                   df_handle_filtered, handle_consumers, fig, writes>>

\* Lines 38-42
Merge ==
    /\ pc = "load"
    /\ idx > Len(log_files)
    /\ all_dfs # <<>>
    /\ IF TimestampCol \notin pd_concat(all_dfs).columns
       THEN \* line 41, df_main['Timestamp']
            /\ df_main' = pd_concat(all_dfs)
            /\ pc' = "raised"
            /\ err' = "KeyError"
       ELSE IF to_datetime_raises(pd_concat(all_dfs))
       THEN \* line 41, pd.to_datetime
            /\ df_main' = pd_concat(all_dfs)
            /\ pc' = "raised"
            /\ err' = "ValueError"
       ELSE /\ \E m \in merge_frames(all_dfs) : df_main' = m
            /\ pc' = "merged"
            /\ err' = err
    /\ UNCHANGED selvars
    /\ UNCHANGED <<dir, report, log_files, idx, all_dfs, console, df_mem_raw, df_mem,
                   df_handle_raw, df_handle, df_mem_filtered, mem_consumers,
                   df_handle_filtered, handle_consumers, fig, writes>>

\* Lines 68-70
ReshapeMem ==
    /\ pc = "merged"
    /\ IF extract_raises(df_main, "TopMem", "TopMem", MemSlotCount, "MB")
       THEN \* line 63, float(p_val)
            /\ pc' = "raised"
            /\ err' = "ValueError"
            /\ UNCHANGED <<df_mem_raw, df_mem>>
       ELSE LET raw == extract_top_data(df_main, "TopMem", "TopMem", MemSlotCount, "MB")
            IN  /\ df_mem_raw' = raw
                /\ IF groupby_raises(raw)
                   THEN /\ pc' = "raised"
                        /\ err' = "KeyError"
                        /\ df_mem' = df_mem
                   ELSE /\ df_mem' = groupby_sum(raw)
                        /\ pc' = "mem_done"
                        /\ err' = err
    /\ UNCHANGED selvars
    /\ UNCHANGED <<dir, report, log_files, idx, all_dfs, console, df_main,
                   df_handle_raw, df_handle, df_mem_filtered, mem_consumers,
                   df_handle_filtered, handle_consumers, fig, writes>>

\* Lines 73-74
ReshapeHandle ==
    /\ pc = "mem_done"
    /\ IF extract_raises(df_main, "TopHandle", "TopHandle", HandleSlotCount, "Count")
       THEN \* line 63, float(p_val)
            /\ pc' = "raised"
            /\ err' = "ValueError"
            /\ UNCHANGED <<df_handle_raw, df_handle>>
       ELSE LET raw == extract_top_data(df_main, "TopHandle", "TopHandle", HandleSlotCount, "Count")
            IN  /\ df_handle_raw' = raw
                /\ IF groupby_raises(raw)
                   THEN /\ pc' = "raised"
                        /\ err' = "KeyError"
                        /\ df_handle' = df_handle
                   ELSE /\ df_handle' = groupby_sum(raw)
                        /\ pc' = "handle_done"
                        /\ err' = err
    /\ UNCHANGED selvars
    /\ UNCHANGED <<dir, report, log_files, idx, all_dfs, console, df_main,
                   df_mem_raw, df_mem, df_mem_filtered, mem_consumers,
                   df_handle_filtered, handle_consumers, fig, writes>>

\* Line 85
FilterMem ==
    /\ pc = "handle_done"
    /\ \E ret \in filter_top_consumers(df_mem, MemTopN) :
          IF unpack_raises(ret)
          THEN /\ pc' = "raised"
               /\ err' = "ValueError"
               /\ UNCHANGED <<df_mem_filtered, mem_consumers>>
          ELSE /\ df_mem_filtered' = ret.df
               /\ mem_consumers' = ret.names
               /\ pc' = "mem_filtered"
               /\ err' = err
    /\ UNCHANGED selvars
    /\ UNCHANGED <<dir, report, log_files, idx, all_dfs, console, df_main,
                   df_mem_raw, df_mem, df_handle_raw, df_handle,
                   df_handle_filtered, handle_consumers, fig, writes>>

\* Line 86
FilterHandle ==
    /\ pc = "mem_filtered"
    /\ \E ret \in filter_top_consumers(df_handle, HandleTopN) :
          IF unpack_raises(ret)
          THEN /\ pc' = "raised"
               /\ err' = "ValueError"
               /\ UNCHANGED <<df_handle_filtered, handle_consumers>>
          ELSE /\ df_handle_filtered' = ret.df
               /\ handle_consumers' = ret.names
               /\ pc' = "handle_filtered"
               /\ err' = err
    /\ UNCHANGED selvars
    /\ UNCHANGED <<dir, report, log_files, idx, all_dfs, console, df_main,
                   df_mem_raw, df_mem, df_handle_raw, df_handle,
                   df_mem_filtered, mem_consumers, fig, writes>>

\* Lines 91-144
Plot ==
    /\ pc = "handle_filtered"
    /\ IF plot_raises(df_main)
       THEN /\ pc' = "raised"
            /\ err' = "KeyError"
            /\ fig' = fig
       ELSE /\ fig' = build_traces(df_main, df_mem_filtered, mem_consumers,
                                   df_handle_filtered, handle_consumers)
            /\ pc' = "plotted"
            /\ err' = err
    /\ UNCHANGED selvars
    /\ UNCHANGED <<dir, report, log_files, idx, all_dfs, console, df_main,
                   df_mem_raw, df_mem, df_handle_raw, df_handle,
                   df_mem_filtered, mem_consumers, df_handle_filtered, handle_consumers,
                   writes>>

\* Lines 147-152
WriteHtml ==
    /\ pc = "plotted"
    /\ report' = [state |-> "written", fig |-> fig]
    /\ writes' = writes + 1
    /\ console' = console \o << Msg("Successfully created report", NoFile),
                                Msg("Report generated (zh)", NoFile),
                                Msg("Report has been successfully generated!", NoFile) >>
    /\ pc' = "returned"
    /\ UNCHANGED selvars
    /\ UNCHANGED <<dir, log_files, idx, all_dfs, err, df_main,
                   df_mem_raw, df_mem, df_handle_raw, df_handle,
                   df_mem_filtered, mem_consumers, df_handle_filtered, handle_consumers,
                   fig>>

Next ==
    \/ Glob
    \/ NoLogFiles
    \/ SortFiles
    \/ LoadFile
    \/ NoValidData
    \/ Merge
    \/ ReshapeMem
    \/ ReshapeHandle
    \/ FilterMem
    \/ FilterHandle
    \/ Plot
    \/ WriteHtml

Spec == Init /\ [][Next]_vars

(***************************************************************************)
(* filter_top_consumers on its own: a long table and a top_n drawn from    *)
(* bounded sets, the function applied, then applied again to the table it  *)
(* returned.                                                               *)
(***************************************************************************)
SelNames == {"a", "b", "c"}

\* The long tables over Timestamps x SelNames with values in 1..MaxVal
\* (0 in the choice function: the key is absent).
LongTables ==
    {{[Timestamp |-> k[1], ProcessName |-> k[2], Value |-> f[k]] :
         k \in {q \in Timestamps \X SelNames : f[q] > 0}} :
       f \in [Timestamps \X SelNames -> 0..MaxVal]}

EmptyDir == [n \in {} |-> EmptyFrame]

InitFilter ==
    /\ dir = EmptyDir
    /\ report = NoReport
    /\ InitRun
    /\ sel_pc = "start"
    /\ sel_df \in LongTables
    /\ sel_n \in 1..MaxK
    /\ sel_ret = NoReturn
    /\ sel_again = NoReturn

\* filter_top_consumers(df, 'Value', top_n)
Select ==
    /\ sel_pc = "start"
    /\ \E ret \in filter_top_consumers(sel_df, sel_n) : sel_ret' = ret
    /\ sel_pc' = "once"
    /\ UNCHANGED <<sel_df, sel_n, sel_again>>
    /\ UNCHANGED runvars

\* filter_top_consumers(<the frame returned>, 'Value', top_n)
Reselect ==
    /\ sel_pc = "once"
    /\ \E ret \in filter_top_consumers(sel_ret.df, sel_n) : sel_again' = ret
    /\ sel_pc' = "twice"
    /\ UNCHANGED <<sel_df, sel_n, sel_ret>>
    /\ UNCHANGED runvars

NextFilter ==
    \/ Select
    \/ Reselect

SpecFilter == InitFilter /\ [][NextFilter]_vars

(***************************************************************************)
(* Definitions used to state the properties.                               *)
(***************************************************************************)
\* the names that match the pattern *_log.csv: they end in "_log.csv" and do
\* not begin with "."
Matching(d) == {n \in DOMAIN d : n.suffix = "_log.csv" /\ (n.stem = <<>> \/ n.stem[1] # 46)}

IsValid(d, n) == d[n].parses /\ NonPagedPoolMBCol \in d[n].table.columns

ValidNames(d) == {n \in Matching(d) : IsValid(d, n)}

RECURSIVE ValidTables(_, _)
ValidTables(d, files) ==
    IF files = <<>> THEN <<>>
    ELSE (IF IsValid(d, Head(files)) THEN <<d[Head(files)].table>> ELSE <<>>)
         \o ValidTables(d, Tail(files))

RECURSIVE TotalRows(_, _)
TotalRows(d, S) ==
    IF S = {} THEN 0
    ELSE LET n == CHOOSE x \in S : TRUE
         IN  Len(d[n].table.rows) + TotalRows(d, S \ {n})

\* row r of the merged frame is row q of a file: equal where the file has
\* the column, NaN elsewhere
IsWidened(r, q) ==
    /\ DOMAIN q \subseteq DOMAIN r
    /\ \A c \in DOMAIN r : r[c] = IF c \in DOMAIN q THEN q[c] ELSE NaN

Occurrences(rows, r) == Cardinality({i \in 1..Len(rows) : rows[i] = r})

RECURSIVE SourceOccurrences(_, _, _)
SourceOccurrences(d, S, r) ==
    IF S = {} THEN 0
    ELSE LET n == CHOOSE x \in S : TRUE
             rs == d[n].table.rows
         IN  Cardinality({j \in 1..Len(rs) : IsWidened(r, rs[j])})
             + SourceOccurrences(d, S \ {n}, r)

Printed(m, f) == \E i \in 1..Len(console) : console[i] = Msg(m, f)

TimesPrinted(m) == Cardinality({i \in 1..Len(console) : console[i].msg = m})

NoLogFilesMsg == "No log files (*_log.csv) found"
NoValidDataMsg == "Could not read any valid data (New Format)."

\* the run is past lines 38-42 and df_main holds the merged table
Merged ==
    \/ pc \in {"merged", "mem_done", "handle_done", "mem_filtered", "handle_filtered", "plotted"}
    \/ /\ pc \in {"returned", "raised"}
       /\ all_dfs # <<>>
       /\ TimestampCol \in df_main.columns
       /\ ~to_datetime_raises(df_main)

(***************************************************************************)
(* C1: when no file matches *_log.csv, or no matching file both parses and *)
(* has the NonPagedPoolMB column, the run never leaves the discovery/load  *)
(* steps, keeps going until it returns, prints exactly the corresponding   *)
(* diagnostic, never builds or writes the report, and leaves a report file *)
(* that existed before as it was.                                          *)
(***************************************************************************)
C1_HaltWritesNothing ==
    (sel_pc = "idle" /\ ValidNames(dir) = {}) =>
        /\ pc \in {"start", "globbed", "load", "returned"}
        /\ writes = 0
        /\ fig = <<>>
        /\ report \in {NoReport, PreviousReport}
        /\ pc # "returned" => ENABLED (Glob \/ NoLogFiles \/ SortFiles \/ LoadFile \/ NoValidData)
        /\ pc = "returned" =>
              /\ Len(console) >= 1
              /\ console[Len(console)].msg =
                    (IF Matching(dir) = {} THEN NoLogFilesMsg ELSE NoValidDataMsg)
              /\ TimesPrinted(NoLogFilesMsg) + TimesPrinted(NoValidDataMsg) = 1

C1_Witness ==
    /\ pc = "returned"
    /\ Matching(dir) # {}
    /\ ValidNames(dir) = {}
    /\ report = PreviousReport
    /\ Printed(NoValidDataMsg, NoFile)

(***************************************************************************)
(* C2: the loader goes through every matching file in sorted order; a file *)
(* that fails to parse or lacks NonPagedPoolMB is left out and reported,   *)
(* and every file that parses and has the column is kept, in order,        *)
(* wherever the failing files are; its rows are in the merged table.       *)
(***************************************************************************)
C2_SkipIsPerFile ==
    sel_pc = "idle" =>
        /\ pc # "start" => Range(log_files) = Matching(dir)
        /\ pc = "load" =>
              /\ all_dfs = ValidTables(dir, SubSeq(log_files, 1, idx - 1))
              /\ \A i \in 1..(idx - 1) :
                    LET f == log_files[i]
                    IN  /\ ~dir[f].parses => Printed("Error reading", f)
                        /\ (dir[f].parses /\ ~IsValid(dir, f)) => Printed("Skipping: Old format", f)
                        /\ IsValid(dir, f) => \A m \in {"Error reading", "Skipping: Old format"} :
                                                  ~Printed(m, f)
              /\ idx <= Len(log_files) => ENABLED LoadFile
        /\ pc \notin {"start", "globbed", "load"} =>
              /\ all_dfs = ValidTables(dir, log_files)
              /\ log_files # <<>> => idx = Len(log_files) + 1
        /\ Merged =>
              \A n \in ValidNames(dir) : \A j \in 1..Len(dir[n].table.rows) :
                  \E i \in 1..Len(df_main.rows) : IsWidened(df_main.rows[i], dir[n].table.rows[j])

C2_Witness ==
    /\ pc = "merged"
    /\ \E i, j, k \in 1..Len(log_files) :
          /\ i < j /\ j < k
          /\ ~dir[log_files[i]].parses
          /\ IsValid(dir, log_files[j])
          /\ dir[log_files[k]].parses /\ ~IsValid(dir, log_files[k])
          /\ Len(dir[log_files[j]].table.rows) > 0

(***************************************************************************)
(* C3: with at least one valid file, the merged table has as many rows as  *)
(* the valid files together, holds exactly their rows (each as often as    *)
(* the files hold it), and is sorted non-decreasing by Timestamp.          *)
(***************************************************************************)
C3_MergedTable ==
    (sel_pc = "idle" /\ Merged) =>
        /\ Len(df_main.rows) = TotalRows(dir, ValidNames(dir))
        /\ \A i \in 1..Len(df_main.rows) :
              Occurrences(df_main.rows, df_main.rows[i])
                 = SourceOccurrences(dir, ValidNames(dir), df_main.rows[i])
        /\ \A i \in 1..(Len(df_main.rows) - 1) :
              df_main.rows[i][TimestampCol][1] <= df_main.rows[i + 1][TimestampCol][1]

C3_Witness ==
    /\ pc = "merged"
    /\ Cardinality(ValidNames(dir)) >= 2
    /\ LET cat == pd_concat(all_dfs).rows
       IN  /\ Len(cat) >= 2
           /\ cat[1][TimestampCol][1] > cat[2][TimestampCol][1]
           /\ df_main.rows[1] = cat[2]

\* the (row, slot) positions of df whose name and value are both present
PresentSlots(df, prefix, unit, N) ==
    {p \in (1..Len(df.rows)) \X (1..N) :
        /\ <<prefix, p[2], "Name">> \in df.columns
        /\ <<prefix, p[2], unit>> \in df.columns
        /\ df.rows[p[1]][<<prefix, p[2], "Name">>] # <<>>
        /\ df.rows[p[1]][<<prefix, p[2], unit>>] # <<>>}

SlotTs(df, p) == df.rows[p[1]][TimestampCol][1]
SlotName(df, prefix, p) == df.rows[p[1]][<<prefix, p[2], "Name">>][1]
SlotValue(df, prefix, unit, p) == df.rows[p[1]][<<prefix, p[2], unit>>][1]

RECURSIVE SumSlots(_, _, _, _)
SumSlots(df, prefix, unit, P) ==
    IF P = {} THEN 0
    ELSE LET p == CHOOSE x \in P : TRUE
         IN  SlotValue(df, prefix, unit, p) + SumSlots(df, prefix, unit, P \ {p})

\* long is the lossless repartition of the present slots of df
IsRepartition(df, long, prefix, unit, N) ==
    LET P == PresentSlots(df, prefix, unit, N)
        at(ts, name) == {p \in P : SlotTs(df, p) = ts /\ SlotName(df, prefix, p) = name}
    IN  /\ \A p \in P : \E r \in long :
              r.Timestamp = SlotTs(df, p) /\ r.ProcessName = SlotName(df, prefix, p)
        /\ \A r \in long : at(r.Timestamp, r.ProcessName) # {}
        /\ \A r1, r2 \in long :
              (r1.Timestamp = r2.Timestamp /\ r1.ProcessName = r2.ProcessName) => r1 = r2
        /\ \A r \in long :
              r.Value = SumSlots(df, prefix, unit, at(r.Timestamp, r.ProcessName))

MemReshaped == df_mem_raw # <<>>
HandleReshaped == df_handle_raw # <<>>

(***************************************************************************)
(* C4: for each family the long table has exactly one row for every        *)
(* (timestamp, process name) found in a slot whose name and value are both *)
(* present, its value is the sum of those slots' values at that timestamp, *)
(* and slots with a missing name or value contribute nothing.              *)
(***************************************************************************)
C4_LosslessRepartition ==
    sel_pc = "idle" =>
        /\ MemReshaped => IsRepartition(df_main, df_mem, "TopMem", "MB", 10)
        /\ HandleReshaped => IsRepartition(df_main, df_handle, "TopHandle", "Count", 5)

C4_Witness ==
    /\ pc = "handle_done"
    /\ \E i \in 1..Len(df_main.rows) :
          LET row == df_main.rows[i]
          IN  /\ row[<<"TopMem", 1, "Name">>] = <<"a">> /\ row[<<"TopMem", 1, "MB">>] = <<1>>
              /\ row[<<"TopMem", 2, "Name">>] = <<"a">> /\ row[<<"TopMem", 2, "MB">>] = <<2>>
              /\ row[<<"TopMem", 3, "Name">>] = <<"b">> /\ row[<<"TopMem", 3, "MB">>] = <<>>
              /\ [Timestamp |-> row[TimestampCol][1], ProcessName |-> "a", Value |-> 3] \in df_mem
              /\ \A r \in df_mem : r.ProcessName # "b"

NamesOf(long) == {r.ProcessName : r \in long}

PeakOf(long, name) ==
    CHOOSE m \in {r.Value : r \in {q \in long : q.ProcessName = name}} :
        \A r \in long : r.ProcessName = name => r.Value <= m

(***************************************************************************)
(* C5: on a non-empty long table with n names and K >= 1 the selector      *)
(* returns min(K, n) distinct names in non-increasing order of their peak  *)
(* value, no unselected name has a higher peak than a selected one, and    *)
(* the returned table is exactly the rows of the selected names.           *)
(***************************************************************************)
C5_TopKByPeak ==
    (sel_pc \in {"once", "twice"} /\ sel_df # {}) =>
        LET names == sel_ret.names
            n     == Cardinality(NamesOf(sel_df))
        IN  /\ sel_ret.pair
            /\ Len(names) = (IF sel_n <= n THEN sel_n ELSE n)
            /\ Range(names) \subseteq NamesOf(sel_df)
            /\ \A i, j \in 1..Len(names) : i # j => names[i] # names[j]
            /\ \A i \in 1..(Len(names) - 1) :
                  PeakOf(sel_df, names[i]) >= PeakOf(sel_df, names[i + 1])
            /\ \A s \in Range(names) : \A u \in NamesOf(sel_df) \ Range(names) :
                  PeakOf(sel_df, s) >= PeakOf(sel_df, u)
            /\ sel_ret.df = {r \in sel_df : r.ProcessName \in Range(names)}

C5_Witness ==
    /\ sel_pc = "once"
    /\ Cardinality(NamesOf(sel_df)) > sel_n
    /\ sel_n >= 2
    /\ \E r1, r2 \in sel_df : r1.ProcessName = r2.ProcessName /\ r1.Value # r2.Value
    /\ Len(sel_ret.names) = sel_n

(***************************************************************************)
(* C6: selecting again, with the same K, from the table the selector       *)
(* returned gives the same set of names and the same rows.                 *)
(***************************************************************************)
C6_Idempotent ==
    sel_pc = "twice" =>
        /\ Range(sel_again.names) = Range(sel_ret.names)
        /\ sel_again.df = sel_ret.df
        /\ sel_again.pair = sel_ret.pair

C6_Witness ==
    /\ sel_pc = "twice"
    /\ Cardinality(NamesOf(sel_df)) > sel_n
    /\ sel_ret.df # sel_df
    /\ sel_again.names # sel_ret.names

\* the traces of figure f in chart row k, in the order they were added
RECURSIVE RowTraces(_, _)
RowTraces(f, k) ==
    IF f = <<>> THEN <<>>
    ELSE (IF Head(f).row = k THEN <<Head(f)>> ELSE <<>>) \o RowTraces(Tail(f), k)

\* trace t plots column col of the merged table
PlotsColumn(t, col) ==
    /\ Len(t.x) = Len(df_main.rows)
    /\ Len(t.y) = Len(df_main.rows)
    /\ \A i \in 1..Len(df_main.rows) :
          t.x[i] = df_main.rows[i][TimestampCol] /\ t.y[i] = df_main.rows[i][col]

\* the traces ts are one per name of consumers, in order, each holding
\* exactly the rows of filtered that belong to its process
OnePerConsumer(ts, consumers, filtered) ==
    /\ Len(ts) = Len(consumers)
    /\ \A k \in 1..Len(ts) :
          LET t == ts[k]
              mine == {r \in filtered : r.ProcessName = consumers[k]}
          IN  /\ t.proc = consumers[k]
              /\ Len(t.x) = Cardinality(mine)
              /\ Len(t.y) = Len(t.x)
              /\ {<<t.x[i], t.y[i]>> : i \in 1..Len(t.x)}
                    = {<<r.Timestamp, r.Value>> : r \in mine}

Plotted == pc = "plotted" \/ (pc = "returned" /\ writes > 0)

(***************************************************************************)
(* C9: in the assembled chart rows 1 and 2 hold two series each, taken     *)
(* from the merged table; row 3 holds one series per name of the memory    *)
(* top-K list (at most 5) and row 4 one per name of the handle top-K list  *)
(* (at most 3), in list order, each with exactly the filtered rows of its  *)
(* own process.                                                            *)
(***************************************************************************)
C9_ChartSeries ==
    (sel_pc = "idle" /\ Plotted) =>
        /\ Len(fig) = 4 + Len(mem_consumers) + Len(handle_consumers)
        /\ Len(RowTraces(fig, 1)) = 2
        /\ PlotsColumn(RowTraces(fig, 1)[1], TotalMBCol)
        /\ PlotsColumn(RowTraces(fig, 1)[2], UsedMBCol)
        /\ Len(RowTraces(fig, 2)) = 2
        /\ PlotsColumn(RowTraces(fig, 2)[1], NonPagedPoolMBCol)
        /\ PlotsColumn(RowTraces(fig, 2)[2], PagedPoolMBCol)
        /\ Len(mem_consumers) = (IF Cardinality(NamesOf(df_mem)) <= 5
                                 THEN Cardinality(NamesOf(df_mem)) ELSE 5)
        /\ Len(handle_consumers) = (IF Cardinality(NamesOf(df_handle)) <= 3
                                    THEN Cardinality(NamesOf(df_handle)) ELSE 3)
        /\ df_mem_filtered = {r \in df_mem : r.ProcessName \in Range(mem_consumers)}
        /\ df_handle_filtered = {r \in df_handle : r.ProcessName \in Range(handle_consumers)}
        /\ OnePerConsumer(RowTraces(fig, 3), mem_consumers, df_mem_filtered)
        /\ OnePerConsumer(RowTraces(fig, 4), handle_consumers, df_handle_filtered)
        /\ pc = "returned" => report.fig = fig

C9_Witness ==
    /\ pc = "plotted"
    /\ Cardinality(NamesOf(df_mem)) > 5
    /\ Cardinality(NamesOf(df_handle)) > 3
    /\ Len(RowTraces(fig, 3)) = 5
    /\ Len(RowTraces(fig, 4)) = 3
    /\ \A k \in 1..5 : RowTraces(fig, 3)[k].proc # "b"
    /\ \E r \in df_mem : r.ProcessName = "b"

\* what the reshaper yields for the table df alone
ExpectedLong(df, prefix, unit, N) ==
    LET P == PresentSlots(df, prefix, unit, N)
    IN  {[Timestamp |-> SlotTs(df, p), ProcessName |-> SlotName(df, prefix, p),
          Value |-> SumSlots(df, prefix, unit,
                       {q \in P : /\ SlotTs(df, q) = SlotTs(df, p)
                                  /\ SlotName(df, prefix, q) = SlotName(df, prefix, p)})] :
           p \in P}

Doubled(long) == {[r EXCEPT !.Value = 2 * r.Value] : r \in long}

UniqueKeys(long) ==
    \A r1, r2 \in long :
        (r1.Timestamp = r2.Timestamp /\ r1.ProcessName = r2.ProcessName) => r1 = r2

\* the input holds the same snapshot table in two valid files and nothing else valid
DuplicatedInput ==
    \E n1, n2 \in ValidNames(dir) :
        /\ n1 # n2
        /\ ValidNames(dir) = {n1, n2}
        /\ dir[n1].table = dir[n2].table

(***************************************************************************)
(* C10: (timestamp, process name) is unique in each long table even when   *)
(* several merged rows share a timestamp: the values of a process are      *)
(* summed across those rows, so an input that holds the same snapshot      *)
(* table in two files yields twice the values of one copy, in the long     *)
(* tables and in the plotted series.                                       *)
(***************************************************************************)
C10_DuplicateRowsSum ==
    sel_pc = "idle" =>
        /\ UniqueKeys(df_mem) /\ UniqueKeys(df_handle)
        /\ DuplicatedInput =>
              LET one == dir[CHOOSE n \in ValidNames(dir) : TRUE].table
                  mem1 == ExpectedLong(one, "TopMem", "MB", 10)
                  handle1 == ExpectedLong(one, "TopHandle", "Count", 5)
              IN  /\ MemReshaped => df_mem = Doubled(mem1)
                  /\ HandleReshaped => df_handle = Doubled(handle1)
                  /\ Plotted =>
                        /\ \A k \in 1..Len(RowTraces(fig, 3)) :
                              LET t == RowTraces(fig, 3)[k]
                              IN  \A i \in 1..Len(t.x) :
                                     [Timestamp |-> t.x[i], ProcessName |-> t.proc,
                                      Value |-> t.y[i]] \in Doubled(mem1)
                        /\ \A k \in 1..Len(RowTraces(fig, 4)) :
                              LET t == RowTraces(fig, 4)[k]
                              IN  \A i \in 1..Len(t.x) :
                                     [Timestamp |-> t.x[i], ProcessName |-> t.proc,
                                      Value |-> t.y[i]] \in Doubled(handle1)

C10_Witness ==
    /\ pc = "plotted"
    /\ DuplicatedInput
    /\ Len(df_main.rows) = 2
    /\ df_main.rows[1] = df_main.rows[2]
    /\ \E r \in df_mem : r.ProcessName = "a" /\ r.Value = 6
    /\ Len(RowTraces(fig, 3)) >= 1

(***************************************************************************)
(* C7 (as claimed): a run whose merged rows hold no present slot for a     *)
(* family ends with the report written, an empty filtered table and name   *)
(* list for that family and no series in its chart row.                    *)
(***************************************************************************)
C7_EmptyFamilyStillReports ==
    (sel_pc = "idle" /\ Merged /\ pc \in {"returned", "raised"}) =>
        /\ PresentSlots(df_main, "TopMem", "MB", 10) = {} =>
              /\ pc = "returned" /\ report.state = "written"
              /\ df_mem_filtered = {} /\ mem_consumers = <<>>
              /\ RowTraces(report.fig, 3) = <<>>
        /\ PresentSlots(df_main, "TopHandle", "Count", 5) = {} =>
              /\ pc = "returned" /\ report.state = "written"
              /\ df_handle_filtered = {} /\ handle_consumers = <<>>
              /\ RowTraces(report.fig, 4) = <<>>

(***************************************************************************)
(* C8 (as claimed): a run ends in exactly one of three outcomes, the "No   *)
(* log files" halt, the "Could not read any valid data" halt, or the       *)
(* report written once with the success messages; with at least one file   *)
(* past the marker check it reaches the write and never ends in an         *)
(* unhandled error.                                                        *)
(***************************************************************************)
C8_ThreeOutcomes ==
    sel_pc = "idle" =>
        /\ pc # "raised"
        /\ pc = "returned" =>
              LET halted1 == /\ TimesPrinted(NoLogFilesMsg) = 1
                             /\ writes = 0 /\ report.state # "written"
                  halted2 == /\ TimesPrinted(NoValidDataMsg) = 1
                             /\ writes = 0 /\ report.state # "written"
                  written == /\ writes = 1 /\ report.state = "written"
                             /\ TimesPrinted("Successfully created report") = 1
              IN  /\ halted1 \/ halted2 \/ written
                  /\ ~(halted1 /\ halted2) /\ ~(halted1 /\ written) /\ ~(halted2 /\ written)
                  /\ all_dfs # <<>> => written

====
